---- MODULE Spec2Model ----
(***************************************************************************)
(* Model of the personal-assistant bot: the record store (db.py), the tool *)
(* handlers and dispatcher (tools/), and the bounded conversation loop     *)
(* (bot.py run_llm_loop).                                                  *)
(*                                                                         *)
(* Time.  An instant is [s |-> whole seconds since the model epoch,        *)
(* us |-> microseconds 0..999999], in UTC.  The model epoch is             *)
(* 2025-03-08T00:00:00Z (day 0), so that the America/New_York change to    *)
(* daylight-saving time (2025-03-09T07:00:00Z) lies inside the horizon.    *)
(* A calendar date is its day number since the epoch; with fixed-width     *)
(* YYYY-MM-DD strings the order of the strings is the order of the         *)
(* numbers.                                                                *)
(***************************************************************************)
EXTENDS Integers, Sequences, FiniteSets, TLC

VARIABLES
    db,          \* the SQLite store: tasks, habits, habit_completions, expenses, user_settings
    now,         \* the wall clock (UTC instant)
    pc,          \* position of run_llm_loop: "idle", "model", "tools", "returned", "raised";
                 \* of a single execute_tool call: "call", "done"; of a series of
                 \* calls over time: "ops" (ready), "called" (a call ran at this clock reading)
    user_id,     \* user of the running conversation
    iter,        \* number of model calls made so far by run_llm_loop
    messages,    \* the conversation list of run_llm_loop; for send_task_reminders, the
                 \* reminders send_message has delivered, in order
    msg,         \* response.choices[0].message of the last model call
    tc_idx,      \* index of the next tool call of msg.tool_calls
    reply,       \* value returned by run_llm_loop
    dispatched,  \* history: ids of the tool calls handed to execute_tool, in order
    last,        \* history: the last store-level operation and what it returned
    locals       \* local variables of the store operations in progress: per thread, the
                 \* position and the `existing` row of complete_habit; the `tasks` list
                 \* of send_task_reminders

vars == <<db, now, pc, user_id, iter, messages, msg, tc_idx, reply, dispatched, last, locals>>

-----------------------------------------------------------------------------
(* Bounds *)

MaxDay == 1
MaxCompletions == 3

-----------------------------------------------------------------------------
(* Clock, zones and timestamp strings *)

SecPerHour == 60 * 60
SecPerDay == 24 * SecPerHour
HalfHour == 30 * 60
LastMicro == 1000000 - 1

Users == {1, 2}

\* The zone database behind ZoneInfo(name), restricted to UTC, the six alias targets and
\* America/Santiago, over the horizon of the model (2025-03-08 to 2025-04-10): offset before
\* and after the one transition of the zone in that period, and the UTC second of the
\* transition.  America/* (United States) and Europe/London change to daylight time,
\* Australia/Sydney and America/Santiago back to standard time; in Santiago the clock goes
\* from 24:00 back to 23:00, so the day before has 25 hours.
ZoneNames ==
    {"UTC", "Asia/Kolkata", "America/New_York", "America/Los_Angeles",
     "America/Chicago", "Europe/London", "Australia/Sydney", "America/Santiago"}

ZoneInfo(tz) ==
    CASE tz = "UTC"                 -> [before |-> 0, after |-> 0, at |-> 0]
      [] tz = "Asia/Kolkata"        -> [before |-> 5 * SecPerHour + HalfHour,
                                        after  |-> 5 * SecPerHour + HalfHour, at |-> 0]
      [] tz = "America/New_York"    -> [before |-> -5 * SecPerHour, after |-> -4 * SecPerHour,
                                        at |-> SecPerDay + 7 * SecPerHour]
      [] tz = "America/Chicago"     -> [before |-> -6 * SecPerHour, after |-> -5 * SecPerHour,
                                        at |-> SecPerDay + 8 * SecPerHour]
      [] tz = "America/Los_Angeles" -> [before |-> -8 * SecPerHour, after |-> -7 * SecPerHour,
                                        at |-> SecPerDay + 10 * SecPerHour]
      [] tz = "Europe/London"       -> [before |-> 0, after |-> SecPerHour,
                                        at |-> 22 * SecPerDay + SecPerHour]
      [] tz = "Australia/Sydney"    -> [before |-> 11 * SecPerHour, after |-> 10 * SecPerHour,
                                        at |-> 28 * SecPerDay + 16 * SecPerHour]
      [] tz = "America/Santiago"    -> [before |-> -3 * SecPerHour, after |-> -4 * SecPerHour,
                                        at |-> 29 * SecPerDay + 3 * SecPerHour]

MaxOf(a, b) == IF a >= b THEN a ELSE b

\* utcoffset of an aware datetime built from a UTC instant (astimezone / datetime.now(tz)).
UtcOffsetAtUtc(tz, s) ==
    LET z == ZoneInfo(tz) IN IF s < z.at THEN z.before ELSE z.after

\* utcoffset of a naive wall time given tzinfo by replace(tzinfo=tz), fold = 0: the wall
\* clock switches at the transition shifted by the larger of the two offsets.
UtcOffsetOfWall(tz, wall) ==
    LET z == ZoneInfo(tz) IN
    IF wall < z.at + MaxOf(z.before, z.after) THEN z.before ELSE z.after

\* A timestamp string: its first 19 characters YYYY-MM-DDTHH:MM:SS as the second count s,
\* then an optional fraction ".ffffff" (frac, -1 when absent) and an optional "+00:00" (tz).
NoFrac == 0 - 1

\* datetime.isoformat() of a naive datetime: the fraction is omitted when microsecond = 0.
IsoNaive(t) == [s |-> t.s, frac |-> IF t.us = 0 THEN NoFrac ELSE t.us, tz |-> FALSE]

\* datetime.isoformat() of an aware UTC datetime: the same, followed by "+00:00".
IsoAwareUtc(t) == [s |-> t.s, frac |-> IF t.us = 0 THEN NoFrac ELSE t.us, tz |-> TRUE]

\* Rank of the text after the 19th character in SQLite's BINARY (memcmp) order:
\* "" < "+00:00" < ".f" < ".f+00:00" < ".g" for f < g   ('+' is 0x2B, '.' is 0x2E).
TailRank(x) ==
    IF x.frac = NoFrac
    THEN (IF x.tz THEN 1 ELSE 0)
    ELSE 2 + 2 * x.frac + (IF x.tz THEN 1 ELSE 0)

\* a <= b for TEXT values in SQLite.
TextLeq(a, b) == a.s < b.s \/ (a.s = b.s /\ TailRank(a) <= TailRank(b))

-----------------------------------------------------------------------------
(* The store *)

NoneTz == "None"
NoDate == 0 - 1000

NoSettings == [present |-> FALSE, timezone |-> "UTC", last_habit_reminder_date |-> NoDate]

EmptyDb ==
    [tasks |-> <<>>, task_seq |-> 0,
     habits |-> <<>>,
     habit_completions |-> <<>>,
     expenses |-> <<>>,
     user_settings |-> [u \in Users |-> NoSettings]]

\* SELECT timezone FROM user_settings WHERE user_id = ? AND timezone != 'UTC'
get_user_timezone(d, u) ==
    LET r == d.user_settings[u] IN
    IF r.present /\ r.timezone # "UTC" THEN r.timezone ELSE NoneTz

get_user_timezone_or_utc(d, u) ==
    LET tz == get_user_timezone(d, u) IN IF tz # NoneTz THEN tz ELSE "UTC"

\* INSERT ... ON CONFLICT(user_id) DO UPDATE SET timezone = ?
set_user_timezone(d, u, timezone) ==
    [d EXCEPT !.user_settings[u] =
        [present |-> TRUE, timezone |-> timezone,
         last_habit_reminder_date |-> d.user_settings[u].last_habit_reminder_date]]

\* datetime.now(ZoneInfo(tz)).strftime("%Y-%m-%d"): the local date of the clock.
get_user_local_date(d, u, clock) ==
    LET tz == get_user_timezone_or_utc(d, u) IN
    (clock.s + UtcOffsetAtUtc(tz, clock.s)) \div SecPerDay

\* (start_utc, end_utc) as the two isoformat strings of the local day date_str.
get_utc_range_for_local_date(d, u, date_str) ==
    LET tz == get_user_timezone_or_utc(d, u)
        start_wall == date_str * SecPerDay
        end_wall == start_wall + SecPerDay - 1
    IN  [start_utc |-> IsoAwareUtc([s |-> start_wall - UtcOffsetOfWall(tz, start_wall), us |-> 0]),
         end_utc   |-> IsoAwareUtc([s |-> end_wall - UtcOffsetOfWall(tz, end_wall),
                                    us |-> LastMicro])]

\* WHERE habit_id = ? AND completed_at >= ? AND completed_at <= ?
CompletionsInRange(d, habit_id, r) ==
    {i \in DOMAIN d.habit_completions :
        /\ d.habit_completions[i].habit_id = habit_id
        /\ TextLeq(r.start_utc, d.habit_completions[i].completed_at)
        /\ TextLeq(d.habit_completions[i].completed_at, r.end_utc)}

HabitOwned(d, habit_id, u) ==
    \E i \in DOMAIN d.habits : d.habits[i].id = habit_id /\ d.habits[i].user_id = u

InsertCompletion(d, habit_id, clock) ==
    [d EXCEPT !.habit_completions =
        Append(@, [habit_id |-> habit_id, completed_at |-> IsoNaive(clock)])]

\* complete_habit(habit_id, user_id): the new store and the returned bool.
complete_habit(d, habit_id, u, clock) ==
    IF ~HabitOwned(d, habit_id, u)
    THEN [db |-> d, ret |-> FALSE]
    ELSE LET today_local == get_user_local_date(d, u, clock)
             r == get_utc_range_for_local_date(d, u, today_local)
         IN  IF CompletionsInRange(d, habit_id, r) # {}
             THEN [db |-> d, ret |-> TRUE]
             ELSE [db |-> InsertCompletion(d, habit_id, clock), ret |-> TRUE]

\* INSERT INTO habits (user_id, name, frequency, created_at): ids are 1, 2, ... (no habit
\* is ever deleted).
add_habit(d, u, name, frequency) ==
    LET row == [id |-> Len(d.habits) + 1, user_id |-> u, name |-> name,
                frequency |-> frequency]
    IN  [db |-> [d EXCEPT !.habits = Append(@, row)], row |-> row]

\* INSERT INTO tasks: AUTOINCREMENT never reuses an id; reminder_sent defaults to 0.
InsertTask(d, u, title, deadline) ==
    LET row == [id |-> d.task_seq + 1, user_id |-> u, title |-> title,
                deadline |-> deadline, reminder_sent |-> 0]
    IN  [db |-> [d EXCEPT !.tasks = Append(@, row), !.task_seq = @ + 1], row |-> row]

\* A deadline literal: kind "naive" (YYYY-MM-DDTHH:MM:SS, wall seconds since the epoch),
\* "aware" (the same with an explicit offset off, or Z) or "unparsable".
\* The stored text: kind "utc" for strftime("%Y-%m-%dT%H:%M:%S") of the UTC instant,
\* "raw" for the fallback, which keeps the first 19 characters of the literal as they are.
deadline_local_to_utc(deadline_iso, timezone_str) ==
    IF deadline_iso.kind = "aware"
    THEN [kind |-> "utc", s |-> deadline_iso.wall - deadline_iso.off]
    ELSE [kind |-> "utc",
          s |-> deadline_iso.wall - UtcOffsetOfWall(timezone_str, deadline_iso.wall)]

add_task(d, u, title, deadline) ==
    LET tz == get_user_timezone_or_utc(d, u)
        deadline_utc == IF deadline.kind = "unparsable"
                        THEN [kind |-> "raw", s |-> deadline.wall]
                        ELSE deadline_local_to_utc(deadline, tz)
    IN  InsertTask(d, u, title, deadline_utc)

\* SELECT * FROM tasks WHERE user_id = ? [AND deadline >= now]: the ids selected.  The
\* deadline text has no fraction, now is datetime.utcnow().isoformat().
list_tasks(d, u, include_past, clock) ==
    {i \in DOMAIN d.tasks :
        /\ d.tasks[i].user_id = u
        /\ (include_past \/
            TextLeq(IsoNaive(clock),
                    [s |-> d.tasks[i].deadline.s, frac |-> NoFrac, tz |-> FALSE]))}

\* A delete that looks at the id alone: DELETE FROM tasks WHERE id = ?
DeleteAnyUsersTask(d, u, task_id) ==
    [db |-> [d EXCEPT !.tasks = SelectSeq(@, LAMBDA r : r.id # task_id)],
     ret |-> \E i \in DOMAIN d.tasks : d.tasks[i].id = task_id]

\* DELETE FROM tasks WHERE id = ? AND user_id = ?: the new store and rowcount > 0.
delete_task(d, u, task_id) ==
    LET hit == {i \in DOMAIN d.tasks : d.tasks[i].id = task_id /\ d.tasks[i].user_id = u}
        keep == SelectSeq(d.tasks, LAMBDA r : ~(r.id = task_id /\ r.user_id = u))
    IN  [db |-> [d EXCEPT !.tasks = keep], ret |-> hit # {}]

\* INSERT INTO expenses; expense_date defaults to the UTC date of the clock.
add_expense(d, u, amount, category, description, has_date, expense_date, clock) ==
    LET row == [id |-> Len(d.expenses) + 1, user_id |-> u, amount |-> amount,
                category |-> category, description |-> description,
                expense_date |-> IF has_date THEN expense_date ELSE clock.s \div SecPerDay]
    IN  [db |-> [d EXCEPT !.expenses = Append(@, row)], row |-> row]

\* SELECT * FROM expenses WHERE user_id = ? AND expense_date >= start AND expense_date <= end
list_expenses(d, u, period, clock) ==
    LET today == clock.s \div SecPerDay
        start == CASE period = "today" -> today
                   [] period = "week"  -> today - 7
                   [] period = "month" -> today - 30
                   [] OTHER            -> NoDate
    IN  {i \in DOMAIN d.expenses :
            /\ d.expenses[i].user_id = u
            /\ d.expenses[i].expense_date >= start
            /\ d.expenses[i].expense_date <= today}

-----------------------------------------------------------------------------
(* Streak *)

RECURSIVE SeqMax(_)
SeqMax(q) == IF Len(q) = 1 THEN q[1] ELSE MaxOf(q[1], SeqMax(Tail(q)))

RECURSIVE RemoveOne(_, _)
RemoveOne(q, x) ==
    IF q = <<>> THEN <<>>
    ELSE IF q[1] = x THEN Tail(q) ELSE <<q[1]>> \o RemoveOne(Tail(q), x)

\* ORDER BY d DESC
RECURSIVE SortDesc(_)
SortDesc(q) ==
    IF q = <<>> THEN <<>>
    ELSE LET m == SeqMax(q) IN <<m>> \o SortDesc(RemoveOne(q, m))

\* A walk that counts every remaining date, whatever the distance to the one before.
StreakWalkIgnoresGaps(dates, prev, streak) == streak + Len(dates)

\* The for loop of get_habit_streak_count after its first element: prev, streak so far.
RECURSIVE StreakWalk(_, _, _)
StreakWalk(dates, prev, streak) ==
    IF dates = <<>> THEN streak
    ELSE IF prev - dates[1] = 1
         THEN StreakWalk(Tail(dates), dates[1], streak + 1)
         ELSE streak

RECURSIVE CompletionDates(_, _)
CompletionDates(rows, habit_id) ==
    IF rows = <<>> THEN <<>>
    ELSE (IF rows[1].habit_id = habit_id
          THEN <<rows[1].completed_at.s \div SecPerDay>> ELSE <<>>)
         \o CompletionDates(Tail(rows), habit_id)

\* SELECT date(completed_at) as d ... ORDER BY d DESC, then the walk.
get_habit_streak_count(d, habit_id) ==
    LET dates == SortDesc(CompletionDates(d.habit_completions, habit_id)) IN
    IF dates = <<>> THEN 0 ELSE StreakWalk(Tail(dates), dates[1], 1)

-----------------------------------------------------------------------------
(* Strings, arguments and payloads *)

\* str.strip(), str.upper() and SQL LOWER() on the strings the model uses; any other
\* string of the model is already stripped / has no alias as its upper case / is lower case.
Strip(x) == CASE x = " run" -> "run" [] x = "IST " -> "IST" [] x = "  " -> "" [] OTHER -> x
Upper(x) == CASE x = "ist" -> "IST" [] x = "est" -> "EST" [] OTHER -> x
Lower(x) == CASE x = "Run" -> "run" [] OTHER -> x

\* The arguments of a tool call after json.loads: is_map is FALSE for a JSON value that
\* is no object (null, a list); keys are the keys present; a field holds the value of its
\* key when the key is present.
NoArgs ==
    [is_map |-> TRUE, keys |-> {},
     name |-> "", frequency |-> "", habit_id |-> 0, timezone |-> "",
     title |-> "", deadline |-> [kind |-> "naive", wall |-> 0, off |-> 0], task_id |-> 0,
     amount |-> 0, category |-> "", description |-> "", expense_date |-> NoDate,
     period |-> ""]

NotAMap == [NoArgs EXCEPT !.is_map = FALSE]

Has(a, k) == k \in a.keys

\* A tool result before serialization: success is "True", "False" or "-" (no such key),
\* error is the text of the error key or "-", value the main datum (a name, a zone) or
\* "-", count the number of rows or the streak, -1 when the payload has none.
NoCount == 0 - 1

Payload(success, error, value, count) ==
    [success |-> success, error |-> error, value |-> value, count |-> count]

NoPayload == Payload("-", "-", "-", NoCount)

\* What a handler did: the store it leaves, and either the payload it returned or the
\* exception it raised.
Ok(d, p) == [db |-> d, raised |-> FALSE, exc |-> "", msg |-> "", result |-> p]
Raise(d, e, m) == [db |-> d, raised |-> TRUE, exc |-> e, msg |-> m, result |-> NoPayload]

\* The classes `except Exception` catches, among those the handlers can raise.
OnlyValueError == {"ValueError"}
ExceptionSubclasses == {"KeyError", "TypeError", "AttributeError", "ValueError"}

-----------------------------------------------------------------------------
(* tools/settings.py *)

AliasKeys == {"IST", "EST", "PST", "CST", "GMT", "AEST"}

TZ_ALIASES(k) ==
    CASE k = "IST"  -> "Asia/Kolkata"
      [] k = "EST"  -> "America/New_York"
      [] k = "PST"  -> "America/Los_Angeles"
      [] k = "CST"  -> "America/Chicago"
      [] k = "GMT"  -> "Europe/London"
      [] k = "AEST" -> "Australia/Sydney"

\* A resolution that takes every string for a zone: UTC.
ResolveWithoutValidation(tz) == [ok |-> TRUE, tz |-> "UTC", err |-> ""]

\* _resolve_timezone: ok with the IANA name, or the ValueError it raises.
resolve_timezone(tz) ==
    LET t == Strip(tz)
        resolved == IF Upper(t) \in AliasKeys THEN TZ_ALIASES(Upper(t)) ELSE t
    IN  IF t = "" THEN [ok |-> FALSE, tz |-> "", err |-> "Timezone cannot be empty"]
        ELSE IF resolved \in ZoneNames THEN [ok |-> TRUE, tz |-> resolved, err |-> ""]
        ELSE [ok |-> FALSE, tz |-> "", err |-> "Invalid timezone"]

execute_settings_tool(tool_name, a, u, d, clock) ==
    CASE tool_name = "set_timezone" ->
            IF ~a.is_map THEN Raise(d, "TypeError", "not subscriptable")
            ELSE IF ~Has(a, "timezone") THEN Raise(d, "KeyError", "timezone")
            ELSE LET r == resolve_timezone(a.timezone) IN
                 IF r.ok
                 THEN Ok(set_user_timezone(d, u, r.tz), Payload("True", "-", r.tz, NoCount))
                 ELSE Ok(d, Payload("False", r.err, "-", NoCount))
      [] tool_name = "get_timezone" ->
            Ok(d, Payload("-", "-", get_user_timezone(d, u), NoCount))
      [] tool_name = "get_current_time" ->
            IF ~a.is_map THEN Raise(d, "AttributeError", "no attribute get")
            ELSE IF Has(a, "timezone") /\ a.timezone # ""
            THEN LET r == resolve_timezone(a.timezone) IN
                 IF r.ok THEN Ok(d, Payload("-", "-", r.tz, NoCount)) ELSE Raise(d, "ValueError", r.err)
            ELSE Ok(d, Payload("-", "-", get_user_timezone_or_utc(d, u), NoCount))
      [] OTHER -> Raise(d, "ValueError", "Unknown settings tool")

-----------------------------------------------------------------------------
(* tools/habits.py *)

\* get_habit_by_id_or_name: the index of the habit row found, 0 for None.  fetchone()
\* returns the first match in rowid order.
MinOf(S) == CHOOSE x \in S : \A y \in S : x <= y

get_habit_by_id_or_name(d, u, has_id, habit_id, has_name, name) ==
    LET byId == {i \in DOMAIN d.habits :
                    d.habits[i].id = habit_id /\ d.habits[i].user_id = u}
        byName == {i \in DOMAIN d.habits :
                    Lower(d.habits[i].name) = Lower(Strip(name)) /\ d.habits[i].user_id = u}
        hit == IF has_id /\ habit_id # 0 THEN byId
               ELSE IF has_name /\ name # "" THEN byName
               ELSE {}
    IN  IF hit = {} THEN 0 ELSE MinOf(hit)

execute_habit_tool(tool_name, a, u, d, clock) ==
    CASE tool_name = "add_habit" ->
            IF ~a.is_map THEN Raise(d, "TypeError", "not subscriptable")
            ELSE IF ~Has(a, "name") THEN Raise(d, "KeyError", "name")
            ELSE LET r == add_habit(d, u, a.name,
                                    IF Has(a, "frequency") THEN a.frequency ELSE "daily")
                 IN  Ok(r.db, Payload("True", "-", r.row.name, NoCount))
      [] tool_name = "list_habits" ->
            Ok(d, Payload("-", "-", "-",
                          Cardinality({i \in DOMAIN d.habits : d.habits[i].user_id = u})))
      [] tool_name = "complete_habit" ->
            IF ~a.is_map THEN Raise(d, "AttributeError", "no attribute get")
            ELSE LET has_id == Has(a, "habit_id") /\ a.habit_id # 0
                     has_name == Has(a, "name") /\ a.name # ""
                     h == get_habit_by_id_or_name(d, u, has_id, a.habit_id, has_name, a.name)
                 IN  IF ~has_id /\ ~has_name
                     THEN Ok(d, Payload("False", "Need habit_id or name", "-", NoCount))
                     ELSE IF h = 0
                     THEN Ok(d, Payload("False", "Habit not found", "-", NoCount))
                     ELSE Ok(complete_habit(d, d.habits[h].id, u, clock).db,
                             Payload("True", "-", d.habits[h].name, NoCount))
      [] tool_name = "get_habit_streak" ->
            IF ~a.is_map THEN Raise(d, "AttributeError", "no attribute get")
            ELSE LET has_id == Has(a, "habit_id") /\ a.habit_id # 0
                     h == get_habit_by_id_or_name(d, u, has_id, a.habit_id, FALSE, "")
                 IN  IF ~has_id
                     THEN Ok(d, Payload("False", "habit_id required", "-", NoCount))
                     ELSE IF h = 0
                     THEN Ok(d, Payload("False", "Habit not found", "-", NoCount))
                     ELSE Ok(d, Payload("-", "-", d.habits[h].name,
                                        get_habit_streak_count(d, a.habit_id)))
      [] OTHER -> Raise(d, "ValueError", "Unknown habit tool")

-----------------------------------------------------------------------------
(* tools/tasks.py *)

execute_task_tool(tool_name, a, u, d, clock) ==
    CASE tool_name = "add_task" ->
            IF ~a.is_map THEN Raise(d, "TypeError", "not subscriptable")
            ELSE IF ~Has(a, "title") THEN Raise(d, "KeyError", "title")
            ELSE IF ~Has(a, "deadline") THEN Raise(d, "KeyError", "deadline")
            ELSE LET r == add_task(d, u, a.title, a.deadline)
                 IN  Ok(r.db, Payload("True", "-", r.row.title, NoCount))
      [] tool_name = "list_tasks" ->
            Ok(d, Payload("-", "-", "-", Cardinality(list_tasks(d, u, FALSE, clock))))
      [] tool_name = "delete_task" ->
            IF ~a.is_map THEN Raise(d, "TypeError", "not subscriptable")
            ELSE IF ~Has(a, "task_id") THEN Raise(d, "KeyError", "task_id")
            ELSE LET r == delete_task(d, u, a.task_id)
                 IN  Ok(r.db, Payload(IF r.ret THEN "True" ELSE "False", "-", "-", NoCount))
      [] OTHER -> Raise(d, "ValueError", "Unknown task tool")

-----------------------------------------------------------------------------
(* tools/money.py *)

execute_money_tool(tool_name, a, u, d, clock) ==
    CASE tool_name = "add_expense" ->
            IF ~a.is_map THEN Raise(d, "TypeError", "not subscriptable")
            ELSE IF ~Has(a, "amount") THEN Raise(d, "KeyError", "amount")
            ELSE IF ~Has(a, "category") THEN Raise(d, "KeyError", "category")
            ELSE LET r == add_expense(d, u, a.amount, a.category,
                                      IF Has(a, "description") THEN a.description ELSE "",
                                      Has(a, "expense_date") /\ a.expense_date # NoDate,
                                      a.expense_date, clock)
                 IN  Ok(r.db, Payload("True", "-", r.row.category, NoCount))
      [] tool_name \in {"list_expenses", "get_spending_summary"} ->
            IF ~a.is_map THEN Raise(d, "AttributeError", "no attribute get")
            ELSE LET period == IF Has(a, "period") THEN a.period ELSE "week"
                 IN  Ok(d, Payload("-", "-", period,
                                   Cardinality(list_expenses(d, u, period, clock))))
      [] tool_name = "get_recommendations" ->
            Ok(d, Payload("-", "-", "-", Cardinality(list_expenses(d, u, "week", clock))))
      [] OTHER -> Raise(d, "ValueError", "Unknown money tool")

-----------------------------------------------------------------------------
(* tools/__init__.py *)

\* The names of TOOLS_SCHEMA = TASK_TOOLS + HABIT_TOOLS + MONEY_TOOLS + SETTINGS_TOOLS.
TOOLS_SCHEMA ==
    {"add_task", "list_tasks", "delete_task",
     "add_habit", "list_habits", "complete_habit", "get_habit_streak",
     "add_expense", "list_expenses", "get_spending_summary", "get_recommendations",
     "set_timezone", "get_timezone", "get_current_time"}

\* The keys of AVAILABLE_FUNCTIONS.
AVAILABLE_FUNCTIONS ==
    {"add_task", "list_tasks", "delete_task",
     "add_habit", "list_habits", "complete_habit", "get_habit_streak",
     "add_expense", "list_expenses", "get_spending_summary", "get_recommendations",
     "set_timezone", "get_timezone"}

\* AVAILABLE_FUNCTIONS[tool_name](tool_name, arguments, user_id)
Handler(tool_name, a, u, d, clock) ==
    CASE tool_name \in {"add_task", "list_tasks", "delete_task"} ->
            execute_task_tool(tool_name, a, u, d, clock)
      [] tool_name \in {"add_habit", "list_habits", "complete_habit", "get_habit_streak"} ->
            execute_habit_tool(tool_name, a, u, d, clock)
      [] tool_name \in {"add_expense", "list_expenses", "get_spending_summary",
                        "get_recommendations"} ->
            execute_money_tool(tool_name, a, u, d, clock)
      [] tool_name \in {"set_timezone", "get_timezone"} ->
            execute_settings_tool(tool_name, a, u, d, clock)

\* execute_tool: the store it leaves, the string it returns (as the payload it
\* serializes), whether a handler was invoked, and whether an exception escapes it.
execute_tool(tool_name, a, u, d, clock) ==
    IF tool_name \notin AVAILABLE_FUNCTIONS
    THEN [db |-> d, result |-> Payload("-", "Unknown tool", "-", NoCount),
          invoked |-> FALSE, raised |-> FALSE]
    ELSE LET h == Handler(tool_name, a, u, d, clock) IN
         IF h.raised /\ h.exc \in ExceptionSubclasses
         THEN [db |-> h.db, result |-> Payload("-", h.msg, "-", NoCount),
               invoked |-> TRUE, raised |-> FALSE]
         ELSE [db |-> h.db, result |-> h.result, invoked |-> TRUE, raised |-> h.raised]

-----------------------------------------------------------------------------
(* bot.py: run_llm_loop *)

MAX_TOOL_ITERATIONS == 5

FallbackMessage == "Sorry, I couldn't process that."
LimitMessage == "I hit a limit on processing. Please try again with a simpler request."

\* The names the loop lets through to execute_tool (the tuple of the `not in` test).
LoopAcceptsAnyName == AVAILABLE_FUNCTIONS \cup {"get_current_time", "frobnicate"}
LoopAccepted ==
    {"add_task", "list_tasks", "delete_task",
     "add_habit", "list_habits", "complete_habit", "get_habit_streak",
     "add_expense", "list_expenses", "get_spending_summary", "get_recommendations"}

\* A loop that gives up one round early.
LoopStopsOneRoundEarly(i) == i < MAX_TOOL_ITERATIONS - 1

\* for _ in range(MAX_TOOL_ITERATIONS): another round starts after i rounds.
LoopContinuesOneMore(i) == i <= MAX_TOOL_ITERATIONS
LoopContinues(i) == i < MAX_TOOL_ITERATIONS

\* What the loop returns for a message without tool calls: its text, or the fallback.
FinalReplyDropsText(m) == FallbackMessage
FinalReply(m) == IF m.content # "" THEN m.content ELSE FallbackMessage

\* json.loads(tc.function.arguments) if tc.function.arguments else {}: the arguments text
\* is "empty", "object" (value is the parsed map), "other" (valid JSON that is no object)
\* or "malformed" (json.loads raises JSONDecodeError).
json_loads(arguments) ==
    CASE arguments.text = "empty"     -> [raised |-> FALSE, value |-> NoArgs]
      [] arguments.text = "malformed" -> [raised |-> TRUE, value |-> NoArgs]
      [] arguments.text = "other"     -> [raised |-> FALSE, value |-> NotAMap]
      [] OTHER                        -> [raised |-> FALSE, value |-> arguments.value]

\* for tc in msg.tool_calls: the call taken at step idx of the loop.
NextCallReversed(calls, idx) == calls[Len(calls) + 1 - idx]
NextCall(calls, idx) == calls[idx]

\* A tool call as the model returns it.
ToolCall(name, text, value) ==
    [name |-> name, arguments |-> [text |-> text, value |-> value]]

\* The provider gives every tool call of a conversation its own id.
CallId(round, idx) == round * 10 + idx

WithIds(calls, round) ==
    [i \in 1..Len(calls) |->
        [id |-> CallId(round, i), name |-> calls[i].name, arguments |-> calls[i].arguments]]

\* An entry of the conversation list.
Message(role, content, tool_call_id, name, result, calls) ==
    [role |-> role, content |-> content, tool_call_id |-> tool_call_id, name |-> name,
     result |-> result, tool_calls |-> calls]

NoMsg == [content |-> "", tool_calls |-> <<>>]

\* The record kept of a store-level call: the tool, the user, the arguments, the user's
\* local date when it was made, and what execute_tool gave back.
LastOp(seq, name, u, a, day, out) ==
    [seq |-> seq, name |-> name, user |-> u, args |-> a, day |-> day,
     result |-> out.result, invoked |-> out.invoked, raised |-> out.raised]

Noon == [s |-> 12 * SecPerHour, us |-> 1]

\* No store operation is in progress.
NoLocals == <<>>

NoLast ==
    LastOp(0, "", 0, NoArgs, 0, [result |-> NoPayload, invoked |-> FALSE, raised |-> FALSE])

\* The assistant turns the scripted model can return.
ArgName(n) == [NoArgs EXCEPT !.keys = {"name"}, !.name = n]
ArgHabitId(i) == [NoArgs EXCEPT !.keys = {"habit_id"}, !.habit_id = i]
ArgTimezone(z) == [NoArgs EXCEPT !.keys = {"timezone"}, !.timezone = z]
ArgTaskId(i) == [NoArgs EXCEPT !.keys = {"task_id"}, !.task_id = i]
ArgPeriod(x) == [NoArgs EXCEPT !.keys = {"period"}, !.period = x]
ArgTask(t, dl) == [NoArgs EXCEPT !.keys = {"title", "deadline"}, !.title = t, !.deadline = dl]
ArgExpense(amt, cat) ==
    [NoArgs EXCEPT !.keys = {"amount", "category"}, !.amount = amt, !.category = cat]

Tomorrow5pm == [kind |-> "naive", wall |-> SecPerDay + 17 * SecPerHour, off |-> 0]

ModelResponses ==
    << [content |-> "Done.", tool_calls |-> <<>>],
       [content |-> "", tool_calls |-> <<>>],
       [content |-> "",
        tool_calls |-> << ToolCall("add_habit", "object", ArgName("run")),
                          ToolCall("complete_habit", "object", ArgName("run")) >>],
       [content |-> "",
        tool_calls |-> << ToolCall("set_timezone", "object", ArgTimezone("IST")),
                          ToolCall("get_timezone", "empty", NoArgs) >>],
       [content |-> "",
        tool_calls |-> << ToolCall("frobnicate", "object", NoArgs),
                          ToolCall("list_habits", "object", NoArgs) >>],
       [content |-> "",
        tool_calls |-> << ToolCall("add_task", "malformed", NoArgs),
                          ToolCall("list_tasks", "object", NoArgs) >>],
       [content |-> "",
        tool_calls |-> << ToolCall("add_task", "object", ArgTask("call mom", Tomorrow5pm)),
                          ToolCall("delete_task", "object", ArgTaskId(1)),
                          ToolCall("get_habit_streak", "object", ArgHabitId(1)),
                          ToolCall("get_current_time", "object", NoArgs) >>],
       [content |-> "",
        tool_calls |-> << ToolCall("add_expense", "object", ArgExpense(50, "food")),
                          ToolCall("list_expenses", "object", ArgPeriod("week")),
                          ToolCall("get_spending_summary", "other", NoArgs),
                          ToolCall("get_recommendations", "object", NoArgs) >>],
       [content |-> "Let me add that.",
        tool_calls |-> << ToolCall("add_habit", "object", NoArgs) >>] >>

\* handle_message: run_llm_loop(user_id, text) starts with the system and user messages.
StartMessage(u) ==
    /\ pc = "idle"
    /\ pc' = "model"
    /\ user_id' = u
    /\ messages' = << Message("system", "SYSTEM_PROMPT", 0, "", NoPayload, <<>>),
                      Message("user", "user_message", 0, "", NoPayload, <<>>) >>
    /\ UNCHANGED <<db, now, iter, msg, tc_idx, reply, dispatched, last, locals>>

\* One groq_client.chat.completions.create call and what the loop does with the message
\* up to the for loop over its tool calls.
ModelCall(r) ==
    /\ pc = "model"
    /\ LoopContinues(iter)
    /\ iter' = iter + 1
    /\ LET m == [content |-> ModelResponses[r].content,
                 tool_calls |-> WithIds(ModelResponses[r].tool_calls, iter + 1)]
       IN  /\ msg' = m
           /\ IF m.tool_calls = <<>>
              THEN /\ pc' = "returned"
                   /\ reply' = FinalReply(m)
                   /\ messages' = messages
              ELSE /\ pc' = "tools"
                   /\ reply' = reply
                   /\ messages' = Append(messages,
                          Message("assistant", m.content, 0, "", NoPayload, m.tool_calls))
    /\ tc_idx' = 1
    /\ UNCHANGED <<db, now, user_id, dispatched, last, locals>>

\* One iteration of `for tc in msg.tool_calls`; after the last one the outer loop either
\* goes to the next model call or falls out of range() and returns the limit message.
DispatchToolCall ==
    /\ pc = "tools"
    /\ LET tc == NextCall(msg.tool_calls, tc_idx)
           more == tc_idx < Len(msg.tool_calls)
           pcNext == IF more THEN "tools"
                     ELSE IF LoopContinues(iter) THEN "model" ELSE "returned"
           replyNext == IF ~more /\ ~LoopContinues(iter) THEN LimitMessage ELSE reply
           p == json_loads(tc.arguments)
           r == execute_tool(tc.name, p.value, user_id, db, now)
       IN  IF tc.name \notin LoopAccepted
           THEN /\ pc' = pcNext
                /\ reply' = replyNext
                /\ tc_idx' = tc_idx + 1
                /\ UNCHANGED <<db, messages, dispatched>>
           ELSE IF p.raised
           THEN /\ pc' = "raised"
                /\ UNCHANGED <<db, messages, dispatched, reply, tc_idx>>
           ELSE IF r.raised
           THEN /\ pc' = "raised"
                /\ db' = r.db
                /\ dispatched' = Append(dispatched, [id |-> tc.id, invoked |-> r.invoked])
                /\ UNCHANGED <<messages, reply, tc_idx>>
           ELSE /\ pc' = pcNext
                /\ reply' = replyNext
                /\ tc_idx' = tc_idx + 1
                /\ db' = r.db
                /\ dispatched' = Append(dispatched, [id |-> tc.id, invoked |-> r.invoked])
                /\ messages' = Append(messages,
                       Message("tool", "", tc.id, tc.name, r.result, <<>>))
    /\ UNCHANGED <<now, user_id, iter, msg, last, locals>>

Init ==
    /\ db = EmptyDb
    /\ now = Noon
    /\ pc = "idle"
    /\ user_id = 0
    /\ iter = 0
    /\ messages = <<>>
    /\ msg = NoMsg
    /\ tc_idx = 1
    /\ reply = ""
    /\ dispatched = <<>>
    /\ last = NoLast
    /\ locals = NoLocals

Next ==
    \/ \E u \in Users : StartMessage(u)
    \/ \E r \in DOMAIN ModelResponses : ModelCall(r)
    \/ DispatchToolCall

Spec == Init /\ [][Next]_vars

-----------------------------------------------------------------------------
(* Properties of the conversation loop *)

AssistantIdx == {i \in DOMAIN messages : messages[i].role = "assistant"}
ToolIdx == {i \in DOMAIN messages : messages[i].role = "tool"}

\* Every round begun so far has run all its tool calls.
RoundsComplete == pc \in {"model", "returned"} /\ iter >= 1

\* C1: run_llm_loop makes at most MAX_TOOL_ITERATIONS = 5 model calls; once five
\* responses with tool requests have been processed it has returned the fixed
\* limit-reached message, and nothing runs after a return.
C1_AtMostFiveModelCalls ==
    /\ iter <= 5
    /\ Cardinality(AssistantIdx) <= 5
    /\ (Cardinality(AssistantIdx) = 5 /\ pc \notin {"tools", "raised"})
          => (pc = "returned" /\ reply = LimitMessage)
    /\ pc = "returned" => ~ENABLED Next

C1_Witness == pc = "returned" /\ iter = 5 /\ reply = LimitMessage

\* C2: a model response without tool requests ends the loop in that step: no tool is
\* executed, the conversation and the store stay as they are, the result is the response
\* text when it is non-empty and the generic fallback otherwise; after a return nothing
\* changes any more.
C2_NoToolRequestsEndsLoop ==
    [][ /\ (iter' = iter + 1 /\ msg'.tool_calls = <<>>)
            => /\ pc' = "returned"
               /\ reply' = (IF msg'.content # "" THEN msg'.content
                            ELSE "Sorry, I couldn't process that.")
               /\ db' = db
               /\ dispatched' = dispatched
               /\ messages' = messages
        /\ (pc = "returned" => UNCHANGED vars) ]_vars

C2_Witness ==
    /\ pc = "returned" /\ msg.tool_calls = <<>> /\ msg.content = "Done."
    /\ reply = "Done." /\ iter = 3 /\ dispatched # <<>>

\* The tool messages appended since the last assistant message.
RoundToolIds ==
    LET la == CHOOSE i \in AssistantIdx : \A j \in AssistantIdx : j <= i
        tl == SubSeq(messages, la + 1, Len(messages))
    IN  [i \in 1..Len(tl) |-> tl[i].tool_call_id]

\* The ids of the first n requests of the round that the loop lets through, in the order
\* the model returned them.
AcceptedIds(n) ==
    LET acc == SelectSeq(SubSeq(msg.tool_calls, 1, n), LAMBDA c : c.name \in LoopAccepted)
    IN  [i \in 1..Len(acc) |-> acc[i].id]

\* C3: within a round the tool requests are dispatched in the order the model returned
\* them, one after the other: the results in the conversation are those of the requests
\* handled so far, in request order, and a complete_habit that follows an add_habit of the
\* same round finds the habit that request created.
C3_RequestsInOrder ==
    /\ (pc = "tools" /\ AssistantIdx # {}) => RoundToolIds = AcceptedIds(tc_idx - 1)
    /\ (RoundsComplete /\ msg.tool_calls # <<>>)
          => RoundToolIds = AcceptedIds(Len(msg.tool_calls))
    /\ \A i \in ToolIdx :
          (/\ messages[i].name = "add_habit" /\ messages[i].result.success = "True"
           /\ i + 1 \in ToolIdx /\ messages[i + 1].name = "complete_habit")
          => /\ messages[i + 1].result.success = "True"
             /\ messages[i + 1].result.value = messages[i].result.value
             /\ db.habit_completions # <<>>

C3_Witness ==
    \E i \in ToolIdx :
        /\ messages[i].name = "add_habit" /\ messages[i].result.success = "True"
        /\ i + 1 \in ToolIdx /\ messages[i + 1].name = "complete_habit"
        /\ messages[i + 1].result.success = "True"
        /\ Len(db.habit_completions) = 1

\* The tool calls of all assistant messages of the conversation.
RequestedCalls ==
    UNION {{messages[i].tool_calls[k] : k \in DOMAIN messages[i].tool_calls} :
            i \in AssistantIdx}

\* C4: when the rounds begun so far are complete (before the next model call), the
\* conversation holds exactly one tool-result message for every requested tool of the
\* catalog, tagged with the request's id.
C4_OneResultPerRequest ==
    RoundsComplete =>
        \A c \in RequestedCalls :
            c.name \in TOOLS_SCHEMA
                => Cardinality({i \in ToolIdx : messages[i].tool_call_id = c.id}) = 1

\* C5: every requested tool of the catalog is routed to its handler: once its round is
\* complete it has been handed to execute_tool and a handler was invoked for it.
C5_CatalogToolsAreRouted ==
    RoundsComplete =>
        \A c \in RequestedCalls :
            c.name \in TOOLS_SCHEMA
                => \E k \in DOMAIN dispatched : dispatched[k].id = c.id /\ dispatched[k].invoked

\* C6: a tool request whose name is outside the catalog is not dispatched, raises nothing
\* and leaves the store as it is; the loop goes on with the next request of the round, or
\* with the next round when it was the last one.
C6_UnknownNameIsSkipped ==
    [][ (pc = "tools" /\ msg.tool_calls[tc_idx].name \notin TOOLS_SCHEMA)
            => /\ db' = db
               /\ dispatched' = dispatched
               /\ tc_idx' = tc_idx + 1
               /\ pc' = (IF tc_idx < Len(msg.tool_calls) THEN "tools"
                         ELSE IF iter < 5 THEN "model" ELSE "returned") ]_vars

C6_Witness ==
    \E i \in AssistantIdx :
        /\ messages[i].tool_calls[1].name = "frobnicate"
        /\ i + 1 \in ToolIdx
        /\ messages[i + 1].tool_call_id = messages[i].tool_calls[2].id
        /\ iter = 2 /\ pc = "tools"

\* C8: no tool request ends the exchange: run_llm_loop never aborts with an exception.
C8_NoRequestAbortsLoop == pc # "raised"

\* C23: run_llm_loop returns the limit-reached message in the step that handles the last
\* tool request of the 5th round: by then every request of that round that the loop hands
\* to execute_tool has been dispatched, its result is in the conversation and its effect
\* is in the store (the habit, the expense, the completion it added are there); and once
\* the message is returned no model call follows, so these results reach no model call,
\* and the store stays as that round left it.
C23_LastRoundRunsBeforeLimit ==
    [][ /\ (reply' = LimitMessage /\ reply # LimitMessage)
            => LET tc == msg.tool_calls[tc_idx]
                   la == CHOOSE i \in AssistantIdx : \A j \in AssistantIdx : j <= i
                   round == {i \in DOMAIN messages' : i > la}
               IN  /\ pc = "tools" /\ pc' = "returned"
                   /\ iter = 5 /\ Cardinality(AssistantIdx) = 5
                   /\ tc_idx = Len(msg.tool_calls)
                   /\ messages[la].tool_calls = msg.tool_calls
                   /\ tc.name \in LoopAccepted
                         => /\ db' = execute_tool(tc.name, json_loads(tc.arguments).value,
                                                  user_id, db, now).db
                            /\ dispatched'[Len(dispatched')].id = tc.id
                   /\ \A k \in DOMAIN msg.tool_calls :
                         msg.tool_calls[k].name \in LoopAccepted
                            => /\ \E j \in DOMAIN dispatched' :
                                     dispatched'[j].id = msg.tool_calls[k].id
                               /\ \E i \in round :
                                     /\ messages'[i].role = "tool"
                                     /\ messages'[i].tool_call_id = msg.tool_calls[k].id
                   /\ \A i \in round :
                         messages'[i].result.success = "True"
                            => /\ messages'[i].name = "add_habit"
                                  => \E h \in DOMAIN db'.habits :
                                        /\ db'.habits[h].user_id = user_id
                                        /\ db'.habits[h].id = Len(db'.habits)
                               /\ messages'[i].name = "add_expense"
                                  => \E e \in DOMAIN db'.expenses :
                                        /\ db'.expenses[e].user_id = user_id
                                        /\ db'.expenses[e].id = Len(db'.expenses)
                               /\ messages'[i].name = "complete_habit"
                                  => db'.habit_completions # <<>>
        /\ (pc = "returned" /\ reply = LimitMessage)
            => (iter' = iter /\ messages' = messages /\ db' = db) ]_vars

\* The limit message has been returned after a 5th round that added a habit and completed
\* it: the store holds five habits, the fifth added in that round, and the completion; the
\* conversation ends with the two results of that round.
C23_Witness ==
    /\ pc = "returned" /\ reply = LimitMessage /\ iter = 5
    /\ Len(db.habits) = 5 /\ db.habit_completions # <<>>
    /\ messages[Len(messages)].role = "tool"
    /\ messages[Len(messages)].tool_call_id = CallId(5, 2)
    /\ messages[Len(messages) - 1].name = "add_habit"
    /\ messages[Len(messages) - 1].result.success = "True"

-----------------------------------------------------------------------------
(* execute_tool on its own: one call, for each tool name, arguments map, user and store *)

\* A store with rows of every kind, built by the operations that create them.
SeedDb ==
    LET d1 == add_habit(EmptyDb, 1, "run", "daily").db
        d2 == add_task(d1, 1, "call mom", Tomorrow5pm).db
        d3 == add_expense(d2, 1, 50, "food", "", FALSE, NoDate, Noon).db
    IN  set_user_timezone(d3, 1, "Asia/Kolkata")

DispatchNames == TOOLS_SCHEMA \cup {"frobnicate"}

DispatchArgs ==
    << NoArgs, NotAMap, ArgName("run"), ArgName("Run"), ArgHabitId(1), ArgHabitId(2),
       ArgTimezone("IST"), ArgTimezone("Mars/Nowhere"), ArgTimezone("  "), ArgTaskId(1),
       ArgTask("call mom", Tomorrow5pm), ArgExpense(50, "food"), ArgPeriod("today") >>

DispatchInit ==
    /\ db \in {EmptyDb, SeedDb}
    /\ now = Noon
    /\ pc = "call"
    /\ user_id \in Users
    /\ iter = 0
    /\ messages = <<>>
    /\ \E n \in DispatchNames : \E k \in DOMAIN DispatchArgs :
          msg = [content |-> "",
                 tool_calls |-> WithIds(<<ToolCall(n, "object", DispatchArgs[k])>>, 0)]
    /\ tc_idx = 1
    /\ reply = ""
    /\ dispatched = <<>>
    /\ last = NoLast
    /\ locals = NoLocals

\* execute_tool(tool_name, arguments, user_id), called once.
DispatchStep ==
    /\ pc = "call"
    /\ LET tc == msg.tool_calls[1]
           r == execute_tool(tc.name, tc.arguments.value, user_id, db, now)
       IN  /\ db' = r.db
           /\ last' = LastOp(1, tc.name, user_id, tc.arguments.value,
                              get_user_local_date(db, user_id, now), r)
           /\ pc' = IF r.raised THEN "raised" ELSE "done"
    /\ UNCHANGED <<now, user_id, iter, messages, msg, tc_idx, reply, dispatched, locals>>

DispatchNext == DispatchStep

DispatchSpec == DispatchInit /\ [][DispatchNext]_vars

\* C7: execute_tool never raises; an unregistered name gives an error payload with no
\* handler invoked and the store untouched; an exception raised by the handler (a missing
\* required argument included) comes back as the payload {error: message}; otherwise the
\* handler's result and store are what execute_tool leaves.
C7_ExecuteToolNeverRaises ==
    [][ pc = "call" =>
          LET tc == msg.tool_calls[1] IN
          /\ pc' = "done" /\ ~last'.raised
          /\ tc.name \notin AVAILABLE_FUNCTIONS
                => /\ ~last'.invoked
                   /\ last'.result.error # "-" /\ last'.result.success = "-"
                   /\ db' = db
          /\ tc.name \in AVAILABLE_FUNCTIONS
                => LET h == Handler(tc.name, tc.arguments.value, user_id, db, now)
                   IN  /\ last'.invoked
                       /\ h.raised => (last'.result = Payload("-", h.msg, "-", NoCount)
                                       /\ db' = db)
                       /\ ~h.raised => (last'.result = h.result /\ db' = h.db) ]_vars

C7_Witness ==
    /\ pc = "done" /\ last.name = "add_habit" /\ last.args.keys = {}
    /\ last.invoked /\ last.result.error = "name" /\ db.habits = <<>>

-----------------------------------------------------------------------------
(* Habit completions over time: complete_habit and set_timezone as the clock advances *)

GridOffsets == {0, 5 * SecPerHour, 12 * SecPerHour, 18 * SecPerHour + HalfHour}

ClockGrid ==
    {[s |-> d * SecPerDay + o, us |-> u] : d \in 0..MaxDay, o \in GridOffsets, u \in {0, 1}}

Before(a, b) == a.s < b.s \/ (a.s = b.s /\ a.us < b.us)

\* The calls made: by user 1, who owns habit 1, and by user 2, who does not.
HabitCalls ==
    << [user |-> 1, call |-> ToolCall("complete_habit", "object", ArgHabitId(1))],
       [user |-> 2, call |-> ToolCall("complete_habit", "object", ArgHabitId(1))],
       [user |-> 1, call |-> ToolCall("set_timezone", "object", ArgTimezone("IST"))],
       [user |-> 1, call |-> ToolCall("set_timezone", "object", ArgTimezone("America/New_York"))],
       [user |-> 1, call |-> ToolCall("set_timezone", "object", ArgTimezone("UTC"))],
       [user |-> 1, call |-> ToolCall("set_timezone", "object", ArgTimezone("Mars/Nowhere"))] >>

HabitInit ==
    /\ db = add_habit(EmptyDb, 1, "run", "daily").db
    /\ now = [s |-> 0, us |-> 0]
    /\ pc = "ops"
    /\ user_id = 0
    /\ iter = 0
    /\ messages = <<>>
    /\ msg = NoMsg
    /\ tc_idx = 1
    /\ reply = ""
    /\ dispatched = <<>>
    /\ last = NoLast
    /\ locals = NoLocals

\* Time passes.
Tick(t) ==
    /\ pc \in {"ops", "called"}
    /\ Before(now, t)
    /\ now' = t
    /\ pc' = "ops"
    /\ UNCHANGED <<db, user_id, iter, messages, msg, tc_idx, reply, dispatched, last, locals>>

\* execute_tool(name, arguments, user) for one of the calls; the clock has moved on since
\* the call before (the table of completions is capped at MaxCompletions rows).
HabitCall(k) ==
    /\ pc = "ops"
    /\ HabitCalls[k].call.name = "complete_habit"
          => Len(db.habit_completions) < MaxCompletions
    /\ LET tc == HabitCalls[k].call
           u == HabitCalls[k].user
           r == execute_tool(tc.name, tc.arguments.value, u, db, now)
       IN  /\ db' = r.db
           /\ last' = LastOp(1 - last.seq, tc.name, u, tc.arguments.value,
                              get_user_local_date(db, u, now), r)
    /\ pc' = "called"
    /\ UNCHANGED <<now, user_id, iter, messages, msg, tc_idx, reply, dispatched, locals>>

HabitNext ==
    \/ \E t \in ClockGrid : Tick(t)
    \/ \E k \in DOMAIN HabitCalls : HabitCall(k)

HabitSpec == HabitInit /\ [][HabitNext]_vars

\* The calendar date, in zone tz, of the UTC second s.
LocalDateOf(tz, s) == (s + UtcOffsetAtUtc(tz, s)) \div SecPerDay

\* The completion rows of a habit whose instant falls on local day `day` of zone tz.
RowsOnLocalDay(d, habit_id, tz, day) ==
    {i \in DOMAIN d.habit_completions :
        /\ d.habit_completions[i].habit_id = habit_id
        /\ LocalDateOf(tz, d.habit_completions[i].completed_at.s) = day}

\* The operation was complete_habit, by the habit's owner.
CompletionByOwner(l) ==
    /\ l.name = "complete_habit"
    /\ Has(l.args, "habit_id")
    /\ HabitOwned(db, l.args.habit_id, l.user)

\* C9: when complete_habit is called for an owned habit and the next operation is the same
\* call on the same local calendar day of the user's zone, both calls report success and
\* the habit has exactly one completion row on that day.
C9_TwiceSameDayOneRow ==
    [][ (/\ last'.seq # last.seq
         /\ CompletionByOwner(last) /\ CompletionByOwner(last')
         /\ last'.user = last.user /\ last'.args.habit_id = last.args.habit_id
         /\ last'.day = last.day)
        => /\ last.result.success = "True"
           /\ last'.result.success = "True"
           /\ Cardinality(RowsOnLocalDay(db', last.args.habit_id,
                              get_user_timezone_or_utc(db, last.user), last.day)) = 1 ]_vars

\* C10: every habit has at most one completion instant on any local calendar day of its
\* owner's zone.
C10_OneCompletionPerLocalDay ==
    \A h \in DOMAIN db.habits :
        LET tz == get_user_timezone_or_utc(db, db.habits[h].user_id) IN
        \A i, j \in DOMAIN db.habit_completions :
            (/\ i # j
             /\ db.habit_completions[i].habit_id = db.habits[h].id
             /\ db.habit_completions[j].habit_id = db.habits[h].id)
            => LocalDateOf(tz, db.habit_completions[i].completed_at.s)
                 # LocalDateOf(tz, db.habit_completions[j].completed_at.s)

-----------------------------------------------------------------------------
(* complete_habit statement by statement: two threads on the same store *)

Threads == {1, 2}

\* The clock readings of the race: none at microsecond 0, so that every stored instant
\* carries its fraction and is visible to the range test.
RaceClock == {t \in ClockGrid : t.us = 1}

\* SELECT 1 FROM habit_completions WHERE habit_id = ? AND completed_at >= ? AND
\* completed_at <= ?, for today's local date of the user: is there a row.
ExistingCompletion(d, habit_id, u, clock) ==
    CompletionsInRange(d, habit_id,
        get_utc_range_for_local_date(d, u, get_user_local_date(d, u, clock))) # {}

\* A variant in which the INSERT tests again for a row of the day, in one statement.
InsertRechecks(d, habit_id, u, existing, clock) == complete_habit(d, habit_id, u, clock).db

\* if existing: return True; otherwise INSERT INTO habit_completions ... and commit.
InsertAfterCheck(d, habit_id, u, existing, clock) ==
    IF existing THEN d ELSE InsertCompletion(d, habit_id, clock)

\* The locals of one complete_habit call.
CallLocals(pos, u, existing, day, ret) ==
    [pc |-> pos, user |-> u, existing |-> existing, day |-> day, ret |-> ret]

RaceInit ==
    /\ db = add_habit(EmptyDb, 1, "run", "daily").db
    /\ now = [s |-> 0, us |-> 1]
    /\ pc = "ops"
    /\ user_id = 0
    /\ iter = 0
    /\ messages = <<>>
    /\ msg = NoMsg
    /\ tc_idx = 1
    /\ reply = ""
    /\ dispatched = <<>>
    /\ last = NoLast
    /\ locals = [p \in Threads |-> CallLocals("idle", 0, FALSE, 0, FALSE)]

\* Thread p enters complete_habit(1, u): the ownership SELECT, the local date and its
\* range, and the existence SELECT.
RaceCheck(p, u) ==
    /\ locals[p].pc = "idle"
    /\ Len(db.habit_completions) < MaxCompletions
    /\ locals' = [locals EXCEPT ![p] =
          IF ~HabitOwned(db, 1, u)
          THEN CallLocals("done", u, FALSE, get_user_local_date(db, u, now), FALSE)
          ELSE CallLocals("checked", u, ExistingCompletion(db, 1, u, now),
                          get_user_local_date(db, u, now), FALSE)]
    /\ UNCHANGED <<db, now, pc, user_id, iter, messages, msg, tc_idx, reply, dispatched, last>>

\* Thread p goes on after the existence SELECT: return True, or INSERT, commit, return True.
RaceInsert(p) ==
    /\ locals[p].pc = "checked"
    /\ db' = InsertAfterCheck(db, 1, locals[p].user, locals[p].existing, now)
    /\ locals' = [locals EXCEPT ![p].pc = "done", ![p].ret = TRUE]
    /\ UNCHANGED <<now, pc, user_id, iter, messages, msg, tc_idx, reply, dispatched, last>>

\* Thread p is free for another call.
RaceReturn(p) ==
    /\ locals[p].pc = "done"
    /\ Len(db.habit_completions) < MaxCompletions
    /\ locals' = [locals EXCEPT ![p] = CallLocals("idle", 0, FALSE, 0, FALSE)]
    /\ UNCHANGED <<db, now, pc, user_id, iter, messages, msg, tc_idx, reply, dispatched, last>>

RaceNext ==
    \/ \E t \in RaceClock : Tick(t)
    \/ \E p \in Threads : \E u \in Users : RaceCheck(p, u)
    \/ \E p \in Threads : RaceInsert(p)
    \/ \E p \in Threads : RaceReturn(p)

RaceSpec == RaceInit /\ [][RaceNext]_vars

\* C11: the existence check and the insert of complete_habit are two steps: a call that
\* found no row of the day inserts its row when it goes on, whatever another call has
\* inserted in between, and reports success.
C11_CheckThenInsertNotAtomic ==
    [][ \A p \in Threads :
          (locals[p].pc = "checked" /\ locals'[p].pc = "done" /\ ~locals[p].existing)
          => /\ Len(db'.habit_completions) = Len(db.habit_completions) + 1
             /\ locals'[p].ret ]_vars

\* Both calls, by the owner on the same local day, passed the check and inserted: two rows
\* of the habit on that day, each stamped with its fraction.
C11_Witness ==
    /\ \A p \in Threads :
          /\ locals[p].pc = "done" /\ locals[p].user = 1
          /\ ~locals[p].existing /\ locals[p].ret
    /\ locals[1].day = locals[2].day
    /\ Len(db.habit_completions) = 2
    /\ \A i \in {1, 2} :
          /\ db.habit_completions[i].habit_id = 1
          /\ db.habit_completions[i].completed_at.frac # NoFrac
          /\ LocalDateOf("UTC", db.habit_completions[i].completed_at.s) = locals[1].day

-----------------------------------------------------------------------------
(* The streak of a habit, over completions recorded on several days *)

MaxStreakDay == 3

\* Clock readings of the days 0..MaxStreakDay: midnight UTC on the second, and two
\* readings later in the day.
StreakGrid ==
    {[s |-> d * SecPerDay + o.s, us |-> o.us] :
        d \in 0..MaxStreakDay,
        o \in {[s |-> 0, us |-> 0], [s |-> 12 * SecPerHour, us |-> 1],
               [s |-> 18 * SecPerHour + HalfHour, us |-> 1]}}

StreakCalls ==
    << [user |-> 1, call |-> ToolCall("complete_habit", "object", ArgHabitId(1))],
       [user |-> 1, call |-> ToolCall("get_habit_streak", "object", ArgHabitId(1))],
       [user |-> 1, call |-> ToolCall("set_timezone", "object", ArgTimezone("IST"))],
       [user |-> 1, call |-> ToolCall("set_timezone", "object", ArgTimezone("UTC"))] >>

\* execute_tool(name, arguments, user) for one of the calls; a complete_habit needs the
\* clock to have moved on since the one before, and the owner's zone is chosen before the
\* first completion, so that all completions are made in one zone.
StreakCall(k) ==
    LET tc == StreakCalls[k].call
        u == StreakCalls[k].user
        r == execute_tool(tc.name, tc.arguments.value, u, db, now)
    IN  /\ pc \in {"ops", "called"}
        /\ tc.name = "complete_habit"
              => (pc = "ops" /\ Len(db.habit_completions) < MaxCompletions)
        /\ tc.name = "set_timezone" => db.habit_completions = <<>>
        /\ db' = r.db
        /\ last' = LastOp(1 - last.seq, tc.name, u, tc.arguments.value,
                           get_user_local_date(db, u, now), r)
        /\ pc' = IF tc.name = "complete_habit" THEN "called" ELSE pc
        /\ UNCHANGED <<now, user_id, iter, messages, msg, tc_idx, reply, dispatched, locals>>

StreakNext ==
    \/ \E t \in StreakGrid : Tick(t)
    \/ \E k \in DOMAIN StreakCalls : StreakCall(k)

StreakSpec == HabitInit /\ [][StreakNext]_vars

\* The completion rows of a habit.
RowsOf(d, habit_id) ==
    {i \in DOMAIN d.habit_completions : d.habit_completions[i].habit_id = habit_id}

\* The calendar days (UTC dates of the stored instants) on which a habit has a completion.
UtcDaysOf(d, habit_id) ==
    {d.habit_completions[i].completed_at.s \div SecPerDay : i \in RowsOf(d, habit_id)}

\* The calendar days of a habit's completions in zone tz.
LocalDaysOf(d, habit_id, tz) ==
    {LocalDateOf(tz, d.habit_completions[i].completed_at.s) : i \in RowsOf(d, habit_id)}

\* The number of consecutive days of a set of days, counted back from its latest day;
\* 0 for the empty set.
RunFromLatest(days) ==
    IF days = {} THEN 0
    ELSE LET m == CHOOSE x \in days : \A y \in days : y <= x
         IN  CHOOSE n \in 1..Cardinality(days) :
                /\ \A j \in 0..(n - 1) : (m - j) \in days
                /\ (m - n) \notin days

\* The last operation was get_habit_streak of habit 1 by its owner, and it gave a streak.
StreakAsked == last.name = "get_habit_streak" /\ last.user = 1 /\ last.result.count # NoCount

\* C12: with one completion per calendar day, the streak is 0 without completions, N when
\* the days are N consecutive days ending at the latest completion, and the count stops
\* at the first gap.
C12_StreakCountsConsecutiveDays ==
    (StreakAsked /\ Cardinality(UtcDaysOf(db, 1)) = Cardinality(RowsOf(db, 1)))
        => last.result.count = RunFromLatest(UtcDaysOf(db, 1))

\* Completions on days 0, 2 and 3: the streak is 2, day 0 lies behind the gap.
C12_Witness ==
    /\ StreakAsked
    /\ Cardinality(RowsOf(db, 1)) = 3
    /\ UtcDaysOf(db, 1) = {0, 2, 3}
    /\ last.result.count = 2

\* C13: when two or more completions fall on the same calendar day, the streak is that of
\* the days with the duplicates removed.
C13_DuplicateDaysCountOnce ==
    (StreakAsked /\ Cardinality(UtcDaysOf(db, 1)) < Cardinality(RowsOf(db, 1)))
        => last.result.count = RunFromLatest(UtcDaysOf(db, 1))

\* C14: completions made by complete_habit on k consecutive days of the owner's zone, one
\* per local day, give a streak of k.
C14_StreakOverLocalDays ==
    LET tz == get_user_timezone_or_utc(db, 1)
        days == LocalDaysOf(db, 1, tz)
    IN  (/\ StreakAsked
         /\ Cardinality(days) = Cardinality(RowsOf(db, 1))
         /\ RunFromLatest(days) = Cardinality(days))
        => last.result.count = Cardinality(days)

-----------------------------------------------------------------------------
(* add_task on its own: one call, for each zone of the user and each deadline literal *)

MaxDeadlineDay == 2

\* Wall-clock values of the literals: every half hour of the days 0..MaxDeadlineDay.
DeadlineWalls == {d * SecPerDay + h * HalfHour : d \in 0..MaxDeadlineDay, h \in 0..47}

\* The literals: zone-naive, with an explicit offset (Z or +05:30), and text that
\* datetime.fromisoformat rejects (such as "13/02/2025 17:00").
DeadlineLiterals ==
    {[kind |-> k, wall |-> w, off |-> 0] : k \in {"naive", "unparsable"}, w \in DeadlineWalls}
        \cup {[kind |-> "aware", wall |-> w, off |-> o] :
                w \in DeadlineWalls, o \in {0, 5 * SecPerHour + HalfHour}}

\* The store of a user 1 whose zone is z (no settings row when it was never set).
StoreWithZone(z) == IF z = "UTC" THEN EmptyDb ELSE set_user_timezone(EmptyDb, 1, z)

DeadlineInit ==
    /\ \E z \in ZoneNames : \E lit \in DeadlineLiterals :
          /\ db = StoreWithZone(z)
          /\ locals = [deadline |-> lit, timezone |-> z]
    /\ now = Noon
    /\ pc = "call"
    /\ user_id = 1
    /\ iter = 0
    /\ messages = <<>>
    /\ msg = NoMsg
    /\ tc_idx = 1
    /\ reply = ""
    /\ dispatched = <<>>
    /\ last = NoLast

\* execute_tool("add_task", {title, deadline}, 1), called once.
DeadlineAdd ==
    /\ pc = "call"
    /\ LET a == ArgTask("call mom", locals.deadline)
           r == execute_tool("add_task", a, user_id, db, now)
       IN  /\ db' = r.db
           /\ last' = LastOp(1, "add_task", user_id, a,
                              get_user_local_date(db, user_id, now), r)
    /\ pc' = "done"
    /\ UNCHANGED <<now, user_id, iter, messages, msg, tc_idx, reply, dispatched, locals>>

DeadlineNext == DeadlineAdd

DeadlineSpec == DeadlineInit /\ [][DeadlineNext]_vars

\* The wall clock of zone tz at the UTC second s.
LocalWallOf(tz, s) == s + UtcOffsetAtUtc(tz, s)

\* C15: the row add_task creates stores a UTC instant, for every literal: the literal's
\* wall clock less its own offset when it carries one, less an offset of the user's zone
\* otherwise; never the text of the literal as it came.
C15_DeadlineStoredAsUtc ==
    pc = "done" =>
        /\ Len(db.tasks) = 1
        /\ LET dl == db.tasks[1].deadline
               lit == locals.deadline
               z == ZoneInfo(locals.timezone)
           IN  /\ dl.kind = "utc"
               /\ lit.kind = "aware" => dl.s = lit.wall - lit.off
               /\ lit.kind # "aware" => dl.s \in {lit.wall - z.before, lit.wall - z.after}

\* C16: for a zone-naive literal that parses, the stored UTC instant, read back on the
\* wall clock of the same zone, is the wall-clock value of the literal.
C16_DeadlineRoundTrip ==
    (pc = "done" /\ locals.deadline.kind = "naive")
        => LocalWallOf(locals.timezone, db.tasks[1].deadline.s) = locals.deadline.wall

-----------------------------------------------------------------------------
(* _get_utc_range_for_local_date on its own: for each zone of the user and each date *)

MaxRangeDay == 30

\* The instants probed against the range of date D: every half hour from the start of
\* the UTC day before D to the end of the UTC day after it.
RangeProbes(date) == {[s |-> date * SecPerDay + k * HalfHour, us |-> 0] : k \in (0 - 48)..96}

RangeInit ==
    /\ \E z \in ZoneNames : \E date \in 0..MaxRangeDay :
          /\ db = StoreWithZone(z)
          /\ locals = [timezone |-> z, date_str |-> date]
    /\ now = Noon
    /\ pc = "call"
    /\ user_id = 1
    /\ iter = 0
    /\ messages = <<>>
    /\ msg = NoMsg
    /\ tc_idx = 1
    /\ reply = ""
    /\ dispatched = <<>>
    /\ last = NoLast

\* _get_utc_range_for_local_date(1, D) and, for the day after, (1, D + 1); t is an instant
\* to hold against the range.
RangeCall(t) ==
    /\ pc = "call"
    /\ pc' = "done"
    /\ locals' = [timezone |-> locals.timezone, date_str |-> locals.date_str,
                  range |-> get_utc_range_for_local_date(db, user_id, locals.date_str),
                  next |-> get_utc_range_for_local_date(db, user_id, locals.date_str + 1),
                  probe |-> t]
    /\ UNCHANGED <<db, now, user_id, iter, messages, msg, tc_idx, reply, dispatched, last>>

RangeNext == \E t \in RangeProbes(locals.date_str) : RangeCall(t)

RangeSpec == RangeInit /\ [][RangeNext]_vars

\* datetime.fromisoformat of a timestamp string with +00:00: the instant it names.
InstantOf(x) == [s |-> x.s, us |-> IF x.frac = NoFrac THEN 0 ELSE x.frac]

\* The instant t is the first one whose calendar date in zone tz is `date`.
IsLocalMidnight(tz, date, t) ==
    /\ t.us = 0
    /\ LocalDateOf(tz, t.s) = date
    /\ LocalDateOf(tz, t.s - 1) = date - 1

\* C17: the range of local date D starts at the instant of midnight of D in the user's
\* zone, ends before the instant of midnight of D + 1, where the range of D + 1 starts,
\* and holds an instant exactly when the local date of that instant is D.
C17_RangeIsTheLocalDay ==
    pc = "done" =>
        LET tz == locals.timezone
            date == locals.date_str
            start == InstantOf(locals.range.start_utc)
            end == InstantOf(locals.range.end_utc)
            nextStart == InstantOf(locals.next.start_utc)
            t == locals.probe
        IN  /\ IsLocalMidnight(tz, date, start)
            /\ IsLocalMidnight(tz, date + 1, nextStart)
            /\ Before(end, nextStart)
            /\ (~Before(t, start) /\ ~Before(end, t)) <=> (LocalDateOf(tz, t.s) = date)

-----------------------------------------------------------------------------
(* set_timezone and get_timezone, call after call *)

\* The zone strings given to set_timezone: an alias, IANA names, and strings that name
\* no zone (unknown, blank, empty).
ZoneStrings == <<"IST", "America/New_York", "UTC", "Mars/Nowhere", "  ", "">>

SettingsCalls ==
    [k \in 1..Len(ZoneStrings) |-> ToolCall("set_timezone", "object", ArgTimezone(ZoneStrings[k]))]
        \o << ToolCall("get_timezone", "object", NoArgs) >>

SettingsInit ==
    /\ db = EmptyDb
    /\ now = Noon
    /\ pc = "ops"
    /\ user_id = 0
    /\ iter = 0
    /\ messages = <<>>
    /\ msg = NoMsg
    /\ tc_idx = 1
    /\ reply = ""
    /\ dispatched = <<>>
    /\ last = NoLast
    /\ locals = NoLocals

\* execute_tool(name, arguments, u) for one of the calls.
SettingsCall(u, k) ==
    /\ pc = "ops"
    /\ LET tc == SettingsCalls[k]
           r == execute_tool(tc.name, tc.arguments.value, u, db, now)
       IN  /\ db' = r.db
           /\ last' = LastOp(1 - last.seq, tc.name, u, tc.arguments.value,
                              get_user_local_date(db, u, now), r)
    /\ UNCHANGED <<now, pc, user_id, iter, messages, msg, tc_idx, reply, dispatched, locals>>

SettingsNext == \E u \in Users : \E k \in DOMAIN SettingsCalls : SettingsCall(u, k)

SettingsSpec == SettingsInit /\ [][SettingsNext]_vars

\* The IANA name a zone string stands for, "None" when it names no zone.
ZoneNamed(x) ==
    CASE x = "IST" -> "Asia/Kolkata"
      [] x \in {"America/New_York", "UTC"} -> x
      [] OTHER -> NoneTz

\* The step is a call of tool `name` by some user.
CallStep(name) == last'.seq # last.seq /\ last'.name = name

\* C18: set_timezone with a string that names a zone succeeds and stores the IANA name,
\* and a get_timezone of a user whose last accepted zone is stored reports that name.
C18_GetTimezoneReportsSetZone ==
    [][ /\ (CallStep("set_timezone") /\ ZoneNamed(last'.args.timezone) # NoneTz)
            => /\ last'.result.success = "True"
               /\ last'.result.value = ZoneNamed(last'.args.timezone)
               /\ db'.user_settings[last'.user].present
               /\ db'.user_settings[last'.user].timezone = ZoneNamed(last'.args.timezone)
        /\ (CallStep("get_timezone") /\ db.user_settings[last'.user].present)
            => last'.result.value = db.user_settings[last'.user].timezone ]_vars

\* C19: set_timezone with an empty or unrecognized zone string gives a failure result
\* with the invalid-timezone error and leaves the store, the user's settings row
\* included, as it was.
C19_InvalidZoneChangesNothing ==
    [][ (CallStep("set_timezone") /\ ZoneNamed(last'.args.timezone) = NoneTz)
            => /\ last'.result.success = "False"
               /\ last'.result.error \in {"Invalid timezone", "Timezone cannot be empty"}
               /\ ~last'.raised
               /\ db' = db ]_vars

\* set_timezone("Mars/Nowhere") has failed for a user whose zone is Asia/Kolkata, and the
\* row still says Asia/Kolkata.
C19_Witness ==
    /\ last.name = "set_timezone" /\ last.args.timezone = "Mars/Nowhere"
    /\ last.result.success = "False" /\ last.result.error = "Invalid timezone"
    /\ db.user_settings[last.user].present
    /\ db.user_settings[last.user].timezone = "Asia/Kolkata"

-----------------------------------------------------------------------------
(* Task reminders: send_task_reminders scans while tasks are added and deleted *)

MaxTasks == 2
MaxScans == 2
MaxReminderTick == 4

Quarter == 15 * 60

\* The task rows, in rowid order, as a sequence sorted by deadline (ORDER BY deadline ASC).
RECURSIVE SortByDeadline(_)
SortByDeadline(rows) ==
    IF rows = <<>> THEN <<>>
    ELSE LET k == CHOOSE i \in DOMAIN rows :
                     \A j \in DOMAIN rows :
                        \/ rows[i].deadline.s < rows[j].deadline.s
                        \/ (rows[i].deadline.s = rows[j].deadline.s /\ rows[i].id <= rows[j].id)
         IN  <<rows[k]>> \o SortByDeadline(SelectSeq(rows, LAMBDA x : x.id # rows[k].id))

\* get_tasks_for_reminder: SELECT * FROM tasks WHERE deadline >= now AND deadline <=
\* now + 1 hour AND reminder_sent = 0 ORDER BY deadline ASC (TEXT comparisons; the
\* deadline text has no fraction).
get_tasks_for_reminder(d, clock) ==
    LET window_end == [s |-> clock.s + SecPerHour, us |-> clock.us]
        text(row) == [s |-> row.deadline.s, frac |-> NoFrac, tz |-> FALSE]
    IN  SortByDeadline(SelectSeq(d.tasks, LAMBDA row :
            /\ TextLeq(IsoNaive(clock), text(row))
            /\ TextLeq(text(row), IsoNaive(window_end))
            /\ row.reminder_sent = 0))

\* A variant that leaves the flag as it is.
MarkNothing(d, task_id) == d

\* mark_task_reminder_sent: UPDATE tasks SET reminder_sent = 1 WHERE id = ?
mark_task_reminder_sent(d, task_id) ==
    [d EXCEPT !.tasks =
        [i \in DOMAIN d.tasks |->
            IF d.tasks[i].id = task_id THEN [d.tasks[i] EXCEPT !.reminder_sent = 1]
            ELSE d.tasks[i]]]

\* The clock of the scans: every quarter of an hour from noon, on the second and just after.
ReminderGrid ==
    {[s |-> 12 * SecPerHour + k * Quarter, us |-> u] : k \in 0..MaxReminderTick, u \in {0, 1}}

\* The deadlines given to add_task (zone-naive; the users' zone is UTC).
ReminderDeadlines ==
    {[kind |-> "naive", wall |-> 12 * SecPerHour + k * HalfHour, off |-> 0] : k \in 1..3}

\* The locals of send_task_reminders: its position, the rest of `tasks`, and the number
\* of scans started so far.
ScanLocals(pos, tasks, scans) == [pc |-> pos, tasks |-> tasks, scans |-> scans]

ReminderInit ==
    /\ db = EmptyDb
    /\ now = Noon
    /\ pc = "ops"
    /\ user_id = 0
    /\ iter = 0
    /\ messages = <<>>
    /\ msg = NoMsg
    /\ tc_idx = 1
    /\ reply = ""
    /\ dispatched = <<>>
    /\ last = NoLast
    /\ locals = ScanLocals("idle", <<>>, 0)

\* A conversation of user u adds a task (execute_tool("add_task", ...)).
ReminderAddTask(u, lit) ==
    /\ db.task_seq < MaxTasks
    /\ db' = execute_tool("add_task", ArgTask("call mom", lit), u, db, now).db
    /\ UNCHANGED <<now, pc, user_id, iter, messages, msg, tc_idx, reply, dispatched, last, locals>>

\* A conversation of user u deletes a task (execute_tool("delete_task", ...)).
ReminderDeleteTask(u, task_id) ==
    /\ \E i \in DOMAIN db.tasks : db.tasks[i].id = task_id /\ db.tasks[i].user_id = u
    /\ db' = execute_tool("delete_task", ArgTaskId(task_id), u, db, now).db
    /\ UNCHANGED <<now, pc, user_id, iter, messages, msg, tc_idx, reply, dispatched, last, locals>>

\* The scheduler starts send_task_reminders (one instance at a time):
\* tasks = db.get_tasks_for_reminder().
ScanStart ==
    /\ locals.pc = "idle"
    /\ locals.scans < MaxScans
    /\ locals' = ScanLocals("loop", get_tasks_for_reminder(db, now), locals.scans + 1)
    /\ UNCHANGED <<db, now, pc, user_id, iter, messages, msg, tc_idx, reply, dispatched, last>>

\* One iteration of `for t in tasks`: await send_message, which delivers the reminder or
\* raises; after a delivery, db.mark_task_reminder_sent(t["id"]); an exception is dropped.
ScanSend(delivered) ==
    /\ locals.pc = "loop"
    /\ locals.tasks # <<>>
    /\ LET t == Head(locals.tasks) IN
       IF delivered
       THEN /\ messages' = Append(messages, [chat_id |-> t.user_id, task_id |-> t.id])
            /\ db' = mark_task_reminder_sent(db, t.id)
       ELSE UNCHANGED <<messages, db>>
    /\ locals' = [locals EXCEPT !.tasks = Tail(locals.tasks)]
    /\ UNCHANGED <<now, pc, user_id, iter, msg, tc_idx, reply, dispatched, last>>

\* The for loop is over: send_task_reminders returns.
ScanEnd ==
    /\ locals.pc = "loop"
    /\ locals.tasks = <<>>
    /\ locals' = [locals EXCEPT !.pc = "idle"]
    /\ UNCHANGED <<db, now, pc, user_id, iter, messages, msg, tc_idx, reply, dispatched, last>>

ReminderNext ==
    \/ \E t \in ReminderGrid : Tick(t)
    \/ \E u \in Users : \E lit \in ReminderDeadlines : ReminderAddTask(u, lit)
    \/ \E u \in Users : \E i \in 1..MaxTasks : ReminderDeleteTask(u, i)
    \/ ScanStart
    \/ \E delivered \in BOOLEAN : ScanSend(delivered)
    \/ ScanEnd

ReminderSpec == ReminderInit /\ [][ReminderNext]_vars

\* The row of task task_id in store d (the set is empty when the task is not there).
TaskRows(d, task_id) == {i \in DOMAIN d.tasks : d.tasks[i].id = task_id}

\* The reminders delivered for a task.
Deliveries(sent, task_id) == {k \in DOMAIN sent : sent[k].task_id = task_id}

C22_FailedSendStillMarks ==
    [][ (/\ locals.pc = "loop" /\ locals.tasks # <<>>
         /\ locals'.tasks = Tail(locals.tasks)
         /\ messages' = messages)
           => \A i \in TaskRows(db', Head(locals.tasks).id) :
                 db'.tasks[i].reminder_sent = 1 ]_vars

-----------------------------------------------------------------------------
(* Ownership: the tools called by two users on one store *)

MaxOwnRows == 3

\* The rows a list tool hands back to its caller, as (table, id, user_id, streak):
\* list_tasks, list_habits (each habit with its streak), list_expenses and
\* get_spending_summary (the expenses of the period), get_recommendations (the expenses
\* of the week and of the month, and the habits).  Any other tool lists nothing.
ListedRows(tool_name, a, u, d, clock) ==
    LET Listed(table, r, streak) ==
            [table |-> table, id |-> r.id, user_id |-> r.user_id, streak |-> streak]
        ListedHabits ==
            {Listed("habits", d.habits[i], get_habit_streak_count(d, d.habits[i].id)) :
                i \in {j \in DOMAIN d.habits : d.habits[j].user_id = u}}
        ListedExpenses(period) ==
            {Listed("expenses", d.expenses[i], NoCount) :
                i \in list_expenses(d, u, period, clock)}
    IN  CASE tool_name = "list_tasks" ->
                {Listed("tasks", d.tasks[i], NoCount) : i \in list_tasks(d, u, FALSE, clock)}
          [] tool_name = "list_habits" -> ListedHabits
          [] tool_name \in {"list_expenses", "get_spending_summary"} /\ a.is_map ->
                ListedExpenses(IF Has(a, "period") THEN a.period ELSE "week")
          [] tool_name = "get_recommendations" ->
                ListedExpenses("week") \cup ListedExpenses("month") \cup ListedHabits
          [] OTHER -> {}

\* The calls either user can make; the ids range over the records of both users (an id
\* is the id of no record until the record is added, or after it is deleted).
OwnershipCalls ==
    << ToolCall("add_task", "object", ArgTask("call mom", Tomorrow5pm)),
       ToolCall("add_habit", "object", ArgName("run")),
       ToolCall("add_expense", "object", ArgExpense(50, "food")),
       ToolCall("delete_task", "object", ArgTaskId(1)),
       ToolCall("delete_task", "object", ArgTaskId(2)),
       ToolCall("complete_habit", "object", ArgHabitId(1)),
       ToolCall("complete_habit", "object", ArgHabitId(2)),
       ToolCall("complete_habit", "object", ArgName("run")),
       ToolCall("complete_habit", "object",
                [NoArgs EXCEPT !.keys = {"habit_id", "name"}, !.habit_id = 1, !.name = "run"]),
       ToolCall("get_habit_streak", "object", ArgHabitId(1)),
       ToolCall("get_habit_streak", "object", ArgHabitId(2)),
       ToolCall("list_tasks", "object", NoArgs),
       ToolCall("list_habits", "object", NoArgs),
       ToolCall("list_expenses", "object", ArgPeriod("today")),
       ToolCall("get_recommendations", "object", NoArgs) >>

OwnershipInit ==
    /\ db = EmptyDb
    /\ now = Noon
    /\ pc = "ops"
    /\ user_id = 0
    /\ iter = 0
    /\ messages = <<>>
    /\ msg = NoMsg
    /\ tc_idx = 1
    /\ reply = ""
    /\ dispatched = <<>>
    /\ last = NoLast
    /\ locals = [rows |-> {}]

\* execute_tool(name, arguments, u) for one of the calls (at most MaxOwnRows records are
\* ever added).
OwnershipCall(u, k) ==
    LET tc == OwnershipCalls[k]
        r == execute_tool(tc.name, tc.arguments.value, u, db, now)
    IN  /\ tc.name \in {"add_task", "add_habit", "add_expense"}
              => db.task_seq + Len(db.habits) + Len(db.expenses) < MaxOwnRows
        /\ db' = r.db
        /\ last' = LastOp(1 - last.seq, tc.name, u, tc.arguments.value,
                           get_user_local_date(db, u, now), r)
        /\ locals' = [rows |-> ListedRows(tc.name, tc.arguments.value, u, db, now)]
        /\ UNCHANGED <<now, pc, user_id, iter, messages, msg, tc_idx, reply, dispatched>>

OwnershipNext ==
    \E u \in Users : \E k \in DOMAIN OwnershipCalls : OwnershipCall(u, k)

OwnershipSpec == OwnershipInit /\ [][OwnershipNext]_vars

\* What user u owns in store d: u's tasks, habits and expenses, and the completions of
\* u's habits.  Ids and the id counter are as in d.
OwnedPart(d, u) ==
    [d EXCEPT !.tasks = SelectSeq(@, LAMBDA r : r.user_id = u),
              !.habits = SelectSeq(@, LAMBDA r : r.user_id = u),
              !.expenses = SelectSeq(@, LAMBDA r : r.user_id = u),
              !.habit_completions = SelectSeq(@, LAMBDA r : HabitOwned(d, r.habit_id, u))]

TaskOwned(d, task_id, u) ==
    \E i \in DOMAIN d.tasks : d.tasks[i].id = task_id /\ d.tasks[i].user_id = u

\* C21: a tool call of user A leaves what another user B owns as it was; what it returns
\* and the rows it lists are what it would return and list on a store holding A's
\* records alone, and every listed row is A's; delete_task with the id of B's task and
\* complete_habit or get_habit_streak with the id of B's habit leave the store unchanged
\* and answer exactly as for an id of no record.
C21_NoCrossUserAccess ==
    [][ last'.seq # last.seq =>
          LET A == last'.user
              n == last'.name
              a == last'.args
              own == execute_tool(n, a, A, OwnedPart(db, A), now)
          IN  /\ \A B \in Users \ {A} :
                    /\ OwnedPart(db', B).tasks = OwnedPart(db, B).tasks
                    /\ OwnedPart(db', B).habits = OwnedPart(db, B).habits
                    /\ OwnedPart(db', B).expenses = OwnedPart(db, B).expenses
                    /\ OwnedPart(db', B).habit_completions = OwnedPart(db, B).habit_completions
                    /\ (n = "delete_task" /\ TaskOwned(db, a.task_id, B))
                          => /\ db' = db
                             /\ last'.result = Payload("False", "-", "-", NoCount)
                    /\ (n \in {"complete_habit", "get_habit_streak"}
                          /\ Has(a, "habit_id") /\ HabitOwned(db, a.habit_id, B))
                          => /\ db' = db
                             /\ last'.result = Payload("False", "Habit not found", "-", NoCount)
              /\ last'.result = own.result
              /\ locals'.rows = ListedRows(n, a, A, OwnedPart(db, A), now)
              /\ \A r \in locals'.rows : r.user_id = A ]_vars

\* User 2, who owns task 2, has just called delete_task with the id of task 1, which user
\* 1 owns: the answer is success False and both tasks are still in the store.
C21_Witness ==
    /\ last.user = 2 /\ last.name = "delete_task" /\ last.args.task_id = 1
    /\ last.result.success = "False"
    /\ TaskOwned(db, 1, 1) /\ TaskOwned(db, 2, 2)

====
